---- MODULE Spec2Model ----
(***************************************************************************)
(* Model of the transaction storage pallet                                 *)
(* (pallets/transaction-storage/src/lib.rs): the authorization ledger,     *)
(* the per-block transaction index with its cumulative chunk counts, the   *)
(* storage proof check and the block hooks.                                *)
(*                                                                         *)
(* Integer types are scaled down: u32, u64 and the block number keep their *)
(* saturating / checked behaviour, over U32Bits, U64Bits bits and up to    *)
(* BlockNumberMax.  Hashes and trie roots are ideal (collision free): a    *)
(* content hash is identified with the blob it hashes and a chunk root     *)
(* with the ordered list of chunks it commits to.                          *)
(***************************************************************************)
EXTENDS Integers, Sequences, FiniteSets, TLC

VARIABLES
    block_number,               \* frame_system::Pallet::block_number()
    parent_hash,                \* frame_system::Pallet::parent_hash(), as the u64 random_chunk reads
    phase,                      \* "idle" between blocks, "open" inside one, "panicked"
    AuthorizationUsageByScope,  \* scope -> Option<AuthorizationUsage>
    AuthorizationsByExpiry,     \* block -> list of Authorization
    Transactions,               \* block -> Option<list of TransactionInfo>
    ChunkCount,                 \* block -> u32
    BlockTransactions,          \* list of TransactionInfo of the block being built
    ProofChecked,               \* bool
    hist                        \* history of the current block and of the ledger

vars == <<block_number, parent_hash, phase, AuthorizationUsageByScope,
          AuthorizationsByExpiry, Transactions, ChunkCount, BlockTransactions,
          ProofChecked, hist>>

-----------------------------------------------------------------------------
(* Config items and constants *)

MaxBlockTransactions == 2
MaxTransactionSize == 3
MaxBlockAuthorizationExpiries == 1
AuthorizationPeriod == 2
StoragePeriod == 1
CHUNK_SIZE == 2

\* The configurations the pallet accepts
integrity_test ==
    /\ AuthorizationPeriod # 0
    /\ StoragePeriod # 0
    /\ MaxBlockTransactions # 0
    /\ MaxTransactionSize # 0

(* Scaled integer widths *)
U32Bits == 3
U64Bits == 4
BlockNumberMax == 4
MaxSeed == 1
IndexBlocks == 3

U32Max == 2^U32Bits - 1
U64Max == 2^U64Bits - 1

-----------------------------------------------------------------------------
(* Option, saturating and checked arithmetic *)

None == <<>>
Some(x) == <<x>>
is_some(o) == o # <<>>
unwrap(o) == o[1]

saturating_add(a, b, max) == IF a + b > max THEN max ELSE a + b
saturating_sub(a, b) == IF a < b THEN 0 ELSE a - b
checked_sub(a, b) == IF a < b THEN None ELSE Some(a - b)
checked_add(a, b, max) == IF a + b > max THEN None ELSE Some(a + b)

Last(s) == s[Len(s)]

-----------------------------------------------------------------------------
(* Data, hashes, chunks *)

RECURSIVE chunks(_)
chunks(data) ==
    IF Len(data) = 0 THEN <<>>
    ELSE IF Len(data) <= CHUNK_SIZE THEN <<data>>
    ELSE <<SubSeq(data, 1, CHUNK_SIZE)>> \o chunks(SubSeq(data, CHUNK_SIZE + 1, Len(data)))

blake2_256(data) == data
blake2_256_ordered_root(chunkList) == chunkList

num_chunks(bytes) ==
    (saturating_sub(saturating_add(bytes, CHUNK_SIZE, U64Max), 1) \div CHUNK_SIZE) % (U32Max + 1)

TransactionInfo(root, hash, size, total) ==
    [chunk_root |-> root, content_hash |-> hash, size |-> size, block_chunks |-> total]

-----------------------------------------------------------------------------
(* Origins and scopes *)

Signed(who) == <<"Signed", who>>
RawNone == <<"None">>
Root == <<"Root">>

Account(who) == <<"Account", who>>
Preimage(hash) == <<"Preimage", hash>>

AuthorizationExtent(t, b) == [transactions |-> t, bytes |-> b]
DefaultUsage == [used |-> AuthorizationExtent(0, 0), unused |-> AuthorizationExtent(0, 0)]

-----------------------------------------------------------------------------
(* Storage maps: a map is a function whose domain is the set of keys present *)

EmptyMap == <<>>
contains_key(m, k) == k \in DOMAIN m
insert(m, k, v) == [x \in (DOMAIN m) \cup {k} |-> IF x = k THEN v ELSE m[x]]
remove(m, k) == [x \in (DOMAIN m) \ {k} |-> m[x]]
\* get of a ValueQuery map: the type's default when the key is absent
get_or(m, k, default) == IF k \in DOMAIN m THEN m[k] ELSE default

\* The pallet's storage, as one value
Storage ==
    [usage |-> AuthorizationUsageByScope, expiry |-> AuthorizationsByExpiry,
     txs |-> Transactions, cc |-> ChunkCount, bt |-> BlockTransactions,
     pc |-> ProofChecked]

Err(e, s) == [result |-> e, s |-> s, index |-> 0]
Ok(s, index) == [result |-> "Ok", s |-> s, index |-> index]

\* a dispatch that keeps the writes of a call that failed
storage_layer_commits_all(s, r) == r.s

\* a dispatch that discards the writes of a failed call except those to the ledger
storage_layer_keeps_usage(s, r) ==
    IF r.result = "Ok" THEN r.s ELSE [s EXCEPT !.usage = r.s.usage]

\* Every dispatchable of #[pallet::call] runs in a storage layer: its writes are
\* committed when it returns Ok and discarded when it returns Err.
with_storage_layer(s, r) == IF r.result = "Ok" THEN r.s ELSE s

-----------------------------------------------------------------------------
(* Authorization ledger *)

\* a resolution that charges the preimage whoever the caller is
scope_of_always_preimage(origin, hash) ==
    IF origin[1] \in {"Signed", "None"} THEN Some(Preimage(hash)) ELSE None

scope_of(origin, hash) ==
    IF origin[1] = "Signed" THEN Some(Account(origin[2]))
    ELSE IF origin[1] = "None" THEN Some(Preimage(hash))
    ELSE None

\* a consume that pays what bytes are left instead of failing
use_authorization_unchecked_bytes(s, origin, hash, size) ==
    LET scope == scope_of(origin, hash) IN
    IF ~is_some(scope) THEN Err("BadOrigin", s)
    ELSE
      LET usage == get_or(s.usage, unwrap(scope), DefaultUsage)
          t == checked_sub(usage.unused.transactions, 1)
      IN IF ~is_some(t) THEN Err("NotAuthorized", s)
         ELSE Ok([s EXCEPT !.usage = insert(s.usage, unwrap(scope),
                    [used |-> AuthorizationExtent(
                                 saturating_add(usage.used.transactions, 1, U32Max),
                                 saturating_add(usage.used.bytes, size, U64Max)),
                     unused |-> AuthorizationExtent(unwrap(t),
                                    saturating_sub(usage.unused.bytes, size))])], 0)

use_authorization(s, origin, hash, size) ==
    LET scope == scope_of(origin, hash) IN
    IF ~is_some(scope) THEN Err("BadOrigin", s)
    ELSE
      LET usage == get_or(s.usage, unwrap(scope), DefaultUsage)
          t == checked_sub(usage.unused.transactions, 1)
          b == checked_sub(usage.unused.bytes, size)
      IN IF ~is_some(t) THEN Err("NotAuthorized", s)
         ELSE IF ~is_some(b) THEN Err("NotAuthorized", s)
         ELSE Ok([s EXCEPT !.usage = insert(s.usage, unwrap(scope),
                    [used |-> AuthorizationExtent(
                                 saturating_add(usage.used.transactions, 1, U32Max),
                                 saturating_add(usage.used.bytes, size, U64Max)),
                     unused |-> AuthorizationExtent(unwrap(t), unwrap(b))])], 0)

\* a grant recorded under the block in which it is made
authorize_expiring_now(s, now, scope, transactions, bytes) ==
    LET usage == get_or(s.usage, scope, DefaultUsage)
        credited == [usage EXCEPT
            !.unused.transactions = saturating_add(@, transactions, U32Max),
            !.unused.bytes = saturating_add(@, bytes, U64Max)]
        s1 == [s EXCEPT !.usage = insert(s.usage, scope, credited)]
        authorizations == get_or(s1.expiry, now, <<>>)
    IN IF Len(authorizations) >= MaxBlockAuthorizationExpiries
       THEN Err("TooManyAuthorizations", s1)
       ELSE Ok([s1 EXCEPT !.expiry = insert(s1.expiry, now,
                   Append(authorizations,
                          [scope |-> scope,
                           extent |-> AuthorizationExtent(transactions, bytes)]))], 0)

authorize(s, now, scope, transactions, bytes) ==
    LET expiry == checked_add(now, AuthorizationPeriod, BlockNumberMax) IN
    IF ~is_some(expiry) THEN Err("ArithmeticError", s)
    ELSE
      LET usage == get_or(s.usage, scope, DefaultUsage)
          credited == [usage EXCEPT
              !.unused.transactions = saturating_add(@, transactions, U32Max),
              !.unused.bytes = saturating_add(@, bytes, U64Max)]
          s1 == [s EXCEPT !.usage = insert(s.usage, scope, credited)]
          authorizations == get_or(s1.expiry, unwrap(expiry), <<>>)
      IN IF Len(authorizations) >= MaxBlockAuthorizationExpiries
         THEN Err("TooManyAuthorizations",
                  [s1 EXCEPT !.expiry = insert(s1.expiry, unwrap(expiry), authorizations)])
         ELSE Ok([s1 EXCEPT !.expiry = insert(s1.expiry, unwrap(expiry),
                     Append(authorizations,
                            [scope |-> scope,
                             extent |-> AuthorizationExtent(transactions, bytes)]))], 0)

\* an expiry that takes back only what was used of the authorization
expire_one_used_only(usageMap, authorization) ==
    IF ~contains_key(usageMap, authorization.scope) THEN usageMap
    ELSE
      LET usage == usageMap[authorization.scope]
          after == [usage EXCEPT
                       !.used.transactions =
                           saturating_sub(@, authorization.extent.transactions),
                       !.used.bytes = saturating_sub(@, authorization.extent.bytes)]
      IN IF after = DefaultUsage THEN remove(usageMap, authorization.scope)
         ELSE insert(usageMap, authorization.scope, after)

\* an expiry that keeps the usage record also when nothing is left in it
expire_one_keeps_record(usageMap, authorization) ==
    IF ~contains_key(usageMap, authorization.scope) THEN usageMap
    ELSE
      LET usage == usageMap[authorization.scope]
          unused_transactions ==
              saturating_sub(authorization.extent.transactions, usage.used.transactions)
          unused_bytes == saturating_sub(authorization.extent.bytes, usage.used.bytes)
      IN insert(usageMap, authorization.scope,
                [used |-> AuthorizationExtent(
                     saturating_sub(usage.used.transactions, authorization.extent.transactions),
                     saturating_sub(usage.used.bytes, authorization.extent.bytes)),
                 unused |-> AuthorizationExtent(
                     saturating_sub(usage.unused.transactions, unused_transactions),
                     saturating_sub(usage.unused.bytes, unused_bytes))])

\* an expiry that takes back the unused part of the authorization and leaves used
expire_one_unused_only(usageMap, authorization) ==
    IF ~contains_key(usageMap, authorization.scope) THEN usageMap
    ELSE
      LET usage == usageMap[authorization.scope]
          unused_transactions ==
              saturating_sub(authorization.extent.transactions, usage.used.transactions)
          unused_bytes == saturating_sub(authorization.extent.bytes, usage.used.bytes)
          after == [usage EXCEPT
                       !.unused.transactions = saturating_sub(@, unused_transactions),
                       !.unused.bytes = saturating_sub(@, unused_bytes)]
      IN IF after = DefaultUsage THEN remove(usageMap, authorization.scope)
         ELSE insert(usageMap, authorization.scope, after)

\* The body of the loop of expire_authorizations: one expiring authorization
expire_one(usageMap, authorization) ==
    IF ~contains_key(usageMap, authorization.scope) THEN usageMap
    ELSE
      LET usage == usageMap[authorization.scope]
          unused_transactions ==
              saturating_sub(authorization.extent.transactions, usage.used.transactions)
          unused_bytes == saturating_sub(authorization.extent.bytes, usage.used.bytes)
          after == [used |-> AuthorizationExtent(
                        saturating_sub(usage.used.transactions, authorization.extent.transactions),
                        saturating_sub(usage.used.bytes, authorization.extent.bytes)),
                    unused |-> AuthorizationExtent(
                        saturating_sub(usage.unused.transactions, unused_transactions),
                        saturating_sub(usage.unused.bytes, unused_bytes))]
      IN IF after = DefaultUsage THEN remove(usageMap, authorization.scope)
         ELSE insert(usageMap, authorization.scope, after)

RECURSIVE expire_all(_, _)
expire_all(usageMap, authorizations) ==
    IF authorizations = <<>> THEN usageMap
    ELSE expire_all(expire_one(usageMap, Head(authorizations)), Tail(authorizations))

expire_authorizations(s, block) ==
    [s EXCEPT !.usage = expire_all(s.usage, get_or(s.expiry, block, <<>>)),
              !.expiry = remove(s.expiry, block)]

unused_account_authorization_extent(s, who) ==
    get_or(s.usage, Account(who), DefaultUsage).unused

unused_preimage_authorization_extent(s, hash) ==
    get_or(s.usage, Preimage(hash), DefaultUsage).unused

-----------------------------------------------------------------------------
(* Transaction index: store and renew *)

last_block_chunks(transactions) ==
    IF transactions = <<>> THEN 0 ELSE Last(transactions).block_chunks

\* a push that records the item's own chunks instead of the running total
push_transaction_own_chunks(s, root, hash, size, chunk_count) ==
    IF ~(Len(s.bt) < MaxBlockTransactions) THEN Err("TooManyTransactions", s)
    ELSE Ok([s EXCEPT !.bt = Append(s.bt, TransactionInfo(root, hash, size, chunk_count))],
            Len(s.bt))

\* a push that reports the number of entries after the push
push_transaction_counts_from_one(s, root, hash, size, chunk_count) ==
    IF ~(Len(s.bt) < MaxBlockTransactions) THEN Err("TooManyTransactions", s)
    ELSE
      LET total_chunks == saturating_add(last_block_chunks(s.bt), chunk_count, U32Max)
      IN Ok([s EXCEPT !.bt = Append(s.bt, TransactionInfo(root, hash, size, total_chunks))],
            Len(s.bt) + 1)

\* BlockTransactions::mutate of store and of renew: the capacity check, the
\* running chunk total and the push
push_transaction(s, root, hash, size, chunk_count) ==
    IF ~(Len(s.bt) < MaxBlockTransactions) THEN Err("TooManyTransactions", s)
    ELSE
      LET total_chunks == saturating_add(last_block_chunks(s.bt), chunk_count, U32Max)
          index == Len(s.bt)
      IN Ok([s EXCEPT !.bt = Append(s.bt, TransactionInfo(root, hash, size, total_chunks))],
            index)

\* extrinsic_index is frame_system's Option<u32>: None outside of block execution
store(s, origin, data, extrinsic_index) ==
    IF Len(data) = 0 THEN Err("EmptyTransaction", s)
    ELSE IF ~(Len(data) <= MaxTransactionSize) THEN Err("TransactionTooLarge", s)
    ELSE
      LET content_hash == blake2_256(data)
          a == use_authorization(s, origin, content_hash, Len(data))
      IN IF a.result # "Ok" THEN a
         ELSE
           LET chunk_count == num_chunks(Len(data))
               root == blake2_256_ordered_root(chunks(data))
           IN IF ~is_some(extrinsic_index) THEN Err("BadContext", a.s)
              ELSE push_transaction(a.s, root, content_hash, Len(data), chunk_count)

\* a renew that appends the referenced record as it is, with its old block_chunks
renew_copies_entry(s, origin, block, index, extrinsic_index) ==
    IF ~contains_key(s.txs, block) THEN Err("RenewedNotFound", s)
    ELSE IF ~(index < Len(s.txs[block])) THEN Err("RenewedNotFound", s)
    ELSE
      LET info == s.txs[block][index + 1]
          a == use_authorization(s, origin, info.content_hash, info.size)
      IN IF a.result # "Ok" THEN a
         ELSE IF ~is_some(extrinsic_index) THEN Err("BadContext", a.s)
         ELSE IF ~(Len(a.s.bt) < MaxBlockTransactions) THEN Err("TooManyTransactions", a.s)
         ELSE Ok([a.s EXCEPT !.bt = Append(a.s.bt, info)], Len(a.s.bt))

renew(s, origin, block, index, extrinsic_index) ==
    IF ~contains_key(s.txs, block) THEN Err("RenewedNotFound", s)
    ELSE IF ~(index < Len(s.txs[block])) THEN Err("RenewedNotFound", s)
    ELSE
      LET info == s.txs[block][index + 1]
          a == use_authorization(s, origin, info.content_hash, info.size)
      IN IF a.result # "Ok" THEN a
         ELSE IF ~is_some(extrinsic_index) THEN Err("BadContext", a.s)
         ELSE push_transaction(a.s, info.chunk_root, info.content_hash, info.size,
                               num_chunks(info.size))

-----------------------------------------------------------------------------
(* Storage proof *)

\* sp_transaction_storage_proof::random_chunk: the hash's leading u64 modulo the bound
random_chunk(random_hash, total_chunks) == random_hash % total_chunks

\* sp_transaction_storage_proof::encode_index: the SCALE compact encoding of a u32,
\* one byte for an index below 64
encode_index(i) == <<4 * i>>

\* slice::binary_search_by_key over block_chunks: Ok(position of a match), or
\* Err(position where the key could be inserted keeping the order)
binary_search_by_key(infos, key) ==
    LET hits == {i \in 1..Len(infos) : infos[i].block_chunks = key} IN
    IF hits # {} THEN [ok |-> TRUE, index |-> (CHOOSE i \in hits : TRUE) - 1]
    ELSE [ok |-> FALSE,
          index |-> Cardinality({i \in 1..Len(infos) : infos[i].block_chunks < key})]

\* The item check_proof selects for a chunk of the block, and the chunk's index in it
select_chunk(infos, selected_chunk_index) ==
    LET found == binary_search_by_key(infos, selected_chunk_index)
        index == IF found.ok THEN found.index ELSE found.index
    IN IF ~(index < Len(infos)) THEN None
       ELSE
         LET info == infos[index + 1]
             chunks_of == num_chunks(info.size)
             prev_chunks == saturating_sub(info.block_chunks, chunks_of)
         IN Some([index |-> index, info |-> info,
                  chunk_index |-> saturating_sub(selected_chunk_index, prev_chunks)])

\* sp_io::trie::blake2_256_verify_proof on an ordered root: the nodes of the proof
\* are a path of the trie of proof.root to proof.key; it verifies exactly when that
\* is the root and the key asked for and the trie holds the value under the key
blake2_256_verify_proof(root, proof, key, value) ==
    /\ proof.root = root
    /\ proof.key = key
    /\ \E i \in 0..(Len(root) - 1) : encode_index(i) = key /\ root[i + 1] = value

\* a proof check without the DoubleCheck guard
check_proof_no_double_check(s, origin, proof, number, parent) ==
    IF origin # RawNone THEN Err("BadOrigin", s)
    ELSE
      LET target_number == saturating_sub(number, StoragePeriod)
          total_chunks == get_or(s.cc, target_number, 0)
      IN IF target_number = 0 \/ total_chunks = 0 THEN Err("UnexpectedProof", s)
         ELSE IF ~contains_key(s.txs, target_number) THEN Err("MissingStateData", s)
         ELSE
           LET sel == select_chunk(s.txs[target_number], random_chunk(parent, total_chunks))
           IN IF ~is_some(sel) THEN Err("MissingStateData", s)
              ELSE IF ~blake2_256_verify_proof(unwrap(sel).info.chunk_root, proof.proof,
                                               encode_index(unwrap(sel).chunk_index),
                                               proof.chunk)
                   THEN Err("InvalidProof", s)
              ELSE Ok([s EXCEPT !.pc = TRUE], 0)

\* a proof check that accepts any proof when no block is to be proved
check_proof_accepts_unexpected(s, origin, proof, number, parent) ==
    IF origin # RawNone THEN Err("BadOrigin", s)
    ELSE IF s.pc THEN Err("DoubleCheck", s)
    ELSE
      LET target_number == saturating_sub(number, StoragePeriod)
          total_chunks == get_or(s.cc, target_number, 0)
      IN IF target_number = 0 \/ total_chunks = 0 THEN Ok([s EXCEPT !.pc = TRUE], 0)
         ELSE IF ~contains_key(s.txs, target_number) THEN Err("MissingStateData", s)
         ELSE
           LET sel == select_chunk(s.txs[target_number], random_chunk(parent, total_chunks))
           IN IF ~is_some(sel) THEN Err("MissingStateData", s)
              ELSE IF ~blake2_256_verify_proof(unwrap(sel).info.chunk_root, proof.proof,
                                               encode_index(unwrap(sel).chunk_index),
                                               proof.chunk)
                   THEN Err("InvalidProof", s)
              ELSE Ok([s EXCEPT !.pc = TRUE], 0)

check_proof(s, origin, proof, number, parent) ==
    IF origin # RawNone THEN Err("BadOrigin", s)
    ELSE IF s.pc THEN Err("DoubleCheck", s)
    ELSE
      LET target_number == saturating_sub(number, StoragePeriod) IN
      IF target_number = 0 THEN Err("UnexpectedProof", s)
      ELSE
        LET total_chunks == get_or(s.cc, target_number, 0) IN
        IF ~(total_chunks # 0) THEN Err("UnexpectedProof", s)
        ELSE
          LET selected_chunk_index == random_chunk(parent, total_chunks) IN
          IF ~contains_key(s.txs, target_number) THEN Err("MissingStateData", s)
          ELSE
            LET sel == select_chunk(s.txs[target_number], selected_chunk_index) IN
            IF ~is_some(sel) THEN Err("MissingStateData", s)
            ELSE IF ~blake2_256_verify_proof(unwrap(sel).info.chunk_root, proof.proof,
                                             encode_index(unwrap(sel).chunk_index),
                                             proof.chunk)
                 THEN Err("InvalidProof", s)
            ELSE Ok([s EXCEPT !.pc = TRUE], 0)

-----------------------------------------------------------------------------
(* Hooks *)

\* a block start that prunes the block whose proof is due in the block
on_initialize_prunes_early(s, n) ==
    LET obsolete == saturating_sub(n, StoragePeriod)
        s1 == IF obsolete > 0
              THEN [s EXCEPT !.txs = remove(s.txs, obsolete), !.cc = remove(s.cc, obsolete)]
              ELSE s
    IN expire_authorizations(s1, n)

\* a block start that prunes the index of the obsolete block and keeps its chunk count
on_initialize_keeps_count(s, n) ==
    LET obsolete == saturating_sub(n, saturating_add(StoragePeriod, 1, BlockNumberMax))
        s1 == IF obsolete > 0 THEN [s EXCEPT !.txs = remove(s.txs, obsolete)] ELSE s
    IN expire_authorizations(s1, n)

on_initialize(s, n) ==
    LET obsolete == saturating_sub(n, saturating_add(StoragePeriod, 1, BlockNumberMax))
        s1 == IF obsolete > 0
              THEN [s EXCEPT !.txs = remove(s.txs, obsolete), !.cc = remove(s.cc, obsolete)]
              ELSE s
    IN expire_authorizations(s1, n)

\* The condition of the assertion of on_finalize
proof_not_required(s, number) ==
    LET target_number == saturating_sub(number, StoragePeriod) IN
    target_number = 0 \/ get_or(s.cc, target_number, 0) = 0

\* a finalization that reads the proof-checked flag without clearing it
on_finalize_keeps_flag(s, n) ==
    IF ~(s.pc \/ proof_not_required(s, n)) THEN Err("Panic", s)
    ELSE
      LET s1 == [s EXCEPT !.bt = <<>>]
          total_chunks == last_block_chunks(s.bt)
      IN IF total_chunks # 0
         THEN Ok([s1 EXCEPT !.cc = insert(s1.cc, n, total_chunks),
                            !.txs = insert(s1.txs, n, s.bt)], 0)
         ELSE Ok(s1, 0)

\* a finalization that reads the accumulator without clearing it
on_finalize_keeps_accumulator(s, n) ==
    IF ~(s.pc \/ proof_not_required(s, n)) THEN Err("Panic", s)
    ELSE
      LET s1 == [s EXCEPT !.pc = FALSE]
          total_chunks == last_block_chunks(s.bt)
      IN IF total_chunks # 0
         THEN Ok([s1 EXCEPT !.cc = insert(s1.cc, n, total_chunks),
                            !.txs = insert(s1.txs, n, s.bt)], 0)
         ELSE Ok(s1, 0)

\* a finalization that clears the proof-checked flag only when it commits an index
on_finalize_clears_on_commit(s, n) ==
    IF ~(s.pc \/ proof_not_required(s, n)) THEN Err("Panic", s)
    ELSE
      LET s1 == [s EXCEPT !.bt = <<>>]
          total_chunks == last_block_chunks(s.bt)
      IN IF total_chunks # 0
         THEN Ok([s1 EXCEPT !.pc = FALSE,
                            !.cc = insert(s1.cc, n, total_chunks),
                            !.txs = insert(s1.txs, n, s.bt)], 0)
         ELSE Ok(s1, 0)

\* result "Ok", or "Panic" when the assertion fails
on_finalize(s, n) ==
    IF ~(s.pc \/ proof_not_required(s, n)) THEN Err("Panic", s)
    ELSE
      LET s1 == [s EXCEPT !.pc = FALSE, !.bt = <<>>]
          transactions == s.bt
          total_chunks == last_block_chunks(transactions)
      IN IF total_chunks # 0
         THEN Ok([s1 EXCEPT !.cc = insert(s1.cc, n, total_chunks),
                            !.txs = insert(s1.txs, n, transactions)], 0)
         ELSE Ok(s1, 0)

-----------------------------------------------------------------------------
(* Dispatchables of authorization; T::Authorizer is EnsureRoot *)

authorize_account(s, origin, who, transactions, bytes, now) ==
    IF origin # Root THEN Err("BadOrigin", s)
    ELSE authorize(s, now, Account(who), transactions, bytes)

\* a preimage grant of two transactions
authorize_preimage_two_transactions(s, origin, hash, bytes, now) ==
    IF origin # Root THEN Err("BadOrigin", s)
    ELSE authorize(s, now, Preimage(hash), 2, bytes)

authorize_preimage(s, origin, hash, bytes, now) ==
    IF origin # Root THEN Err("BadOrigin", s)
    ELSE authorize(s, now, Preimage(hash), 1, bytes)

-----------------------------------------------------------------------------
(* History: what happened, for stating properties; the pallet does not read it *)

RECURSIVE SumSeq(_, _, _)
\* the sum of field f of the extents of the authorizations of scope sc in a list
SumSeq(authorizations, sc, f) ==
    IF authorizations = <<>> THEN 0
    ELSE (IF Head(authorizations).scope = sc THEN Head(authorizations).extent[f] ELSE 0)
         + SumSeq(Tail(authorizations), sc, f)

RECURSIVE SumBlocks(_, _, _, _)
SumBlocks(expiryMap, blocks, sc, f) ==
    IF blocks = {} THEN 0
    ELSE LET b == CHOOSE x \in blocks : TRUE
         IN SumSeq(expiryMap[b], sc, f) + SumBlocks(expiryMap, blocks \ {b}, sc, f)

\* the extent of the authorizations of scope sc recorded in the expiry lists
Outstanding(expiryMap, sc) ==
    AuthorizationExtent(SumBlocks(expiryMap, DOMAIN expiryMap, sc, "transactions"),
                        SumBlocks(expiryMap, DOMAIN expiryMap, sc, "bytes"))

\* how much of an expiring authorization had been used when it expired
ExpiryClass(usageMap, authorization) ==
    IF ~contains_key(usageMap, authorization.scope) THEN "norecord"
    ELSE LET used == usageMap[authorization.scope].used
             e == authorization.extent
         IN IF used.transactions = 0 /\ used.bytes = 0 THEN "none"
            ELSE IF used.transactions >= e.transactions /\ used.bytes >= e.bytes THEN "all"
            ELSE "some"

RECURSIVE ExpiryClasses(_, _)
ExpiryClasses(usageMap, authorizations) ==
    IF authorizations = <<>> THEN {}
    ELSE {ExpiryClass(usageMap, Head(authorizations))}
         \cup ExpiryClasses(expire_one(usageMap, Head(authorizations)), Tail(authorizations))

ScopesOf(authorizations) == {authorizations[i].scope : i \in 1..Len(authorizations)}

\* hist.proofs: the check_proof calls that returned Ok in the current block (2: two or
\* more); hist.rejected: the errors of RecordedProofErrors that check_proof calls
\* returned in the current block; hist.expired: how much of each authorization that
\* on_initialize of the current block expired had been used
RecordedProofErrors == {"InvalidProof", "UnexpectedProof", "DoubleCheck"}
Min(a, b) == IF a < b THEN a ELSE b

\* hist.single: the scopes whose whole authorization is one grant, not yet expired,
\* with the grant and what the scope consumed of it
SingleOnGrant(single, s, sc, t, b) ==
    IF ~contains_key(s.usage, sc) /\ Outstanding(s.expiry, sc) = AuthorizationExtent(0, 0)
    THEN insert(single, sc, [granted |-> AuthorizationExtent(t, b),
                             consumed |-> AuthorizationExtent(0, 0)])
    ELSE remove(single, sc)

SingleOnConsume(single, sc, size) ==
    IF contains_key(single, sc)
    THEN [single EXCEPT ![sc].consumed =
             AuthorizationExtent(@.transactions + 1, @.bytes + size)]
    ELSE single

SingleOnExpire(single, scopes) == [sc \in (DOMAIN single) \ scopes |-> single[sc]]

\* hist.pruned: on_initialize of the current block removed a committed index;
\* hist.renewed: a renew succeeded in the current block; hist.clipped: the scopes
\* with an authorization still recorded whose credit was clipped by a saturating
\* addition of a grant
ClippedOnGrant(clipped, s, sc, t, b) ==
    LET unused == get_or(s.usage, sc, DefaultUsage).unused
    IN IF unused.transactions + t > U32Max \/ unused.bytes + b > U64Max
       THEN clipped \cup {sc} ELSE clipped

ClippedOnExpire(clipped, expiryMap) ==
    {sc \in clipped : Outstanding(expiryMap, sc) # AuthorizationExtent(0, 0)}

-----------------------------------------------------------------------------
(* Actions *)

Commit(s) ==
    /\ AuthorizationUsageByScope' = s.usage
    /\ AuthorizationsByExpiry' = s.expiry
    /\ Transactions' = s.txs
    /\ ChunkCount' = s.cc
    /\ BlockTransactions' = s.bt
    /\ ProofChecked' = s.pc

Called(r) ==
    /\ Commit(with_storage_layer(Storage, r))
    /\ UNCHANGED <<block_number, parent_hash, phase>>

Init ==
    /\ block_number = 0
    /\ parent_hash = 0
    /\ phase = "idle"
    /\ AuthorizationUsageByScope = EmptyMap
    /\ AuthorizationsByExpiry = EmptyMap
    /\ Transactions = EmptyMap
    /\ ChunkCount = EmptyMap
    /\ BlockTransactions = <<>>
    /\ ProofChecked = FALSE
    /\ hist = [proofs |-> 0, rejected |-> {}, expired |-> {}, single |-> EmptyMap,
               pruned |-> FALSE, renewed |-> FALSE, clipped |-> {}]

\* The next block starts: frame_system sets its number and parent hash, then the hook
OnInitialize(seed, lastBlock) ==
    /\ phase = "idle"
    /\ block_number < BlockNumberMax
    /\ block_number < lastBlock
    /\ LET n == block_number + 1
           expiring == get_or(AuthorizationsByExpiry, n, <<>>)
       IN /\ Commit(on_initialize(Storage, n))
          /\ block_number' = n
          /\ hist' = [proofs |-> 0, rejected |-> {},
                      expired |-> ExpiryClasses(AuthorizationUsageByScope, expiring),
                      single |-> SingleOnExpire(hist.single, ScopesOf(expiring)),
                      pruned |-> contains_key(Transactions, n - (StoragePeriod + 1)),
                      renewed |-> FALSE,
                      clipped |-> ClippedOnExpire(hist.clipped,
                                                  remove(AuthorizationsByExpiry, n))]
    /\ parent_hash' = seed
    /\ phase' = "open"

\* The block ends: the hook commits the block, or its assertion fails
OnFinalize ==
    /\ phase = "open"
    /\ LET r == on_finalize(Storage, block_number)
       IN /\ Commit(IF r.result = "Ok" THEN r.s ELSE Storage)
          /\ phase' = IF r.result = "Ok" THEN "idle" ELSE "panicked"
    /\ UNCHANGED <<block_number, parent_hash, hist>>

Store(origin, data, extrinsic_index) ==
    /\ phase = "open"
    /\ LET r == store(Storage, origin, data, extrinsic_index)
       IN /\ Called(r)
          /\ hist' = IF r.result = "Ok"
                     THEN [hist EXCEPT !.single = SingleOnConsume(@,
                              unwrap(scope_of(origin, blake2_256(data))), Len(data))]
                     ELSE hist

Renew(origin, block, index, extrinsic_index) ==
    /\ phase = "open"
    /\ LET r == renew(Storage, origin, block, index, extrinsic_index)
       IN /\ Called(r)
          /\ hist' = IF r.result = "Ok"
                     THEN LET info == Transactions[block][index + 1]
                          IN [hist EXCEPT !.single = SingleOnConsume(@,
                                 unwrap(scope_of(origin, info.content_hash)), info.size),
                                          !.renewed = TRUE]
                     ELSE hist

CheckProof(origin, proof) ==
    /\ phase = "open"
    /\ LET r == check_proof(Storage, origin, proof, block_number, parent_hash)
       IN /\ Called(r)
          /\ hist' = [hist EXCEPT
                         !.proofs = IF r.result = "Ok" THEN Min(@ + 1, 2) ELSE @,
                         !.rejected = IF r.result \in RecordedProofErrors
                                      THEN @ \cup {r.result} ELSE @]

AuthorizeAccount(origin, who, transactions, bytes) ==
    /\ phase = "open"
    /\ LET r == authorize_account(Storage, origin, who, transactions, bytes, block_number)
       IN /\ Called(r)
          /\ hist' = IF r.result = "Ok"
                     THEN [hist EXCEPT
                              !.single = SingleOnGrant(@, Storage, Account(who),
                                                       transactions, bytes),
                              !.clipped = ClippedOnGrant(@, Storage, Account(who),
                                                         transactions, bytes)]
                     ELSE hist

AuthorizePreimage(origin, hash, bytes) ==
    /\ phase = "open"
    /\ LET r == authorize_preimage(Storage, origin, hash, bytes, block_number)
       IN /\ Called(r)
          /\ hist' = IF r.result = "Ok"
                     THEN [hist EXCEPT
                              !.single = SingleOnGrant(@, Storage, Preimage(hash), 1, bytes),
                              !.clipped = ClippedOnGrant(@, Storage, Preimage(hash),
                                                         1, bytes)]
                     ELSE hist

-----------------------------------------------------------------------------
(* Inputs *)

Alice == "alice"
Blob(n) == [i \in 1..n |-> 0]
\* the storage proof of chunk k of blob d, carrying chunk c
Proof(c, d, k) ==
    [chunk |-> c,
     proof |-> [root |-> blake2_256_ordered_root(chunks(d)), key |-> encode_index(k)]]

PrevBlock == saturating_sub(block_number, 1)

\* The calls made to the index and the proof check, with a grant to pay for them
IndexInputs ==
    [lastBlock |-> IndexBlocks,
     seeds |-> 0..MaxSeed,
     store |-> {<<Signed(Alice), Blob(n), Some(0)>> :
                  n \in {0, 1, MaxTransactionSize, MaxTransactionSize + 1}}
               \cup {<<RawNone, Blob(1), Some(0)>>, <<Root, Blob(1), Some(0)>>,
                     <<Signed(Alice), Blob(1), None>>},
     renew |-> {<<Signed(Alice), b, i, Some(0)>> :
                   b \in {PrevBlock, block_number}, i \in 0..MaxBlockTransactions}
               \cup {<<RawNone, PrevBlock, 0, Some(0)>>, <<Root, PrevBlock, 0, Some(0)>>,
                     <<Signed(Alice), PrevBlock, 0, None>>},
     proof |-> {<<RawNone, Proof(Blob(c), Blob(n), k)>> :
                   c \in 1..CHUNK_SIZE, n \in 1..MaxTransactionSize, k \in 0..1}
               \cup {<<Signed(Alice), Proof(Blob(1), Blob(1), 0)>>},
     account |-> {<<Root, Alice, 3, 4>>, <<Signed(Alice), Alice, 3, 4>>},
     preimage |-> {<<Root, blake2_256(Blob(1)), 1>>,
                   <<Signed(Alice), blake2_256(Blob(1)), 1>>}]

NextOf(I) ==
    \/ \E seed \in I.seeds : OnInitialize(seed, I.lastBlock)
    \/ OnFinalize
    \/ \E i \in I.store : Store(i[1], i[2], i[3])
    \/ \E i \in I.renew : Renew(i[1], i[2], i[3], i[4])
    \/ \E i \in I.proof : CheckProof(i[1], i[2])
    \/ \E i \in I.account : AuthorizeAccount(i[1], i[2], i[3], i[4])
    \/ \E i \in I.preimage : AuthorizePreimage(i[1], i[2], i[3])

Next == NextOf(IndexInputs)

Spec == Init /\ [][Next]_vars

\* The calls made to the ledger: grants of several extents, up to the width of the
\* integers, and stores that use them; the proof is always of the block's first chunk
LedgerInputs ==
    [lastBlock |-> BlockNumberMax,
     seeds |-> {0},
     store |-> {<<Signed(Alice), Blob(1), Some(0)>>, <<Signed(Alice), Blob(3), Some(0)>>,
                <<RawNone, Blob(1), Some(0)>>},
     renew |-> {<<Signed(Alice), PrevBlock, 0, Some(0)>>},
     proof |-> {<<RawNone, Proof(Blob(1), Blob(1), 0)>>,
                <<RawNone, Proof(Blob(CHUNK_SIZE), Blob(3), 0)>>},
     account |-> {<<Root, Alice, tb[1], tb[2]>> :
                     tb \in {<<1, 4>>, <<2, 4>>, <<U32Max, U64Max>>}},
     preimage |-> {<<Root, blake2_256(Blob(1)), b>> : b \in {1, 2}}]

NextLedger == NextOf(LedgerInputs)

SpecLedger == Init /\ [][NextLedger]_vars

-----------------------------------------------------------------------------
(* Properties *)

\* the committed lists and the accumulator of the block being built
CommittedBlocks == DOMAIN Transactions

RECURSIVE SumChunks(_, _)
\* the chunks of the first j items of a list
SumChunks(infos, j) ==
    IF j = 0 THEN 0 ELSE SumChunks(infos, j - 1) + num_chunks(infos[j].size)

\* the item of a list whose chunk range holds k
Owns(info, k) ==
    /\ info.block_chunks - num_chunks(info.size) <= k
    /\ k < info.block_chunks

\* C1: for every committed list and every chunk index k below the block's chunk
\* count, the item that check_proof selects for k (binary search on block_chunks,
\* the index found or the insertion point) is the item whose range
\* [block_chunks - num_chunks(size), block_chunks) holds k.
C1_LookupSelectsOwner ==
    \A b \in CommittedBlocks :
        \A k \in 0..(get_or(ChunkCount, b, 0) - 1) :
            LET sel == select_chunk(Transactions[b], k)
            IN is_some(sel) /\ Owns(unwrap(sel).info, k)

\* the caller that consumes from a scope, and a hash of its stores
OriginOf(sc) == IF sc[1] = "Account" THEN Signed(sc[2]) ELSE RawNone
HashOf(sc) == IF sc[1] = "Preimage" THEN sc[2] ELSE blake2_256(Blob(1))

\* C2: while a scope's whole authorization is a single grant (T, B), a consume of
\* the scope succeeds exactly when the transactions and the bytes consumed so
\* far, with this one, stay within T and B, and fails with NotAuthorized when
\* not; unused is what is left of the grant and used is what was consumed.
C2_ConsumeWithinSingleGrant ==
    \A sc \in DOMAIN hist.single :
        LET g == hist.single[sc].granted
            c == hist.single[sc].consumed
            usage == get_or(AuthorizationUsageByScope, sc, DefaultUsage)
        IN /\ usage.used = c
           /\ usage.unused =
                  AuthorizationExtent(g.transactions - c.transactions, g.bytes - c.bytes)
           /\ \A size \in 1..MaxTransactionSize :
                  LET r == use_authorization(Storage, OriginOf(sc), HashOf(sc), size)
                      fits == /\ c.transactions + 1 <= g.transactions
                              /\ c.bytes + size <= g.bytes
                  IN /\ (r.result = "Ok") <=> fits
                     /\ ~fits => r.result = "NotAuthorized"

\* a grant of one transaction was consumed with bytes to spare, and one more
\* consume is rejected
C2_Witness ==
    \E sc \in DOMAIN hist.single :
        /\ hist.single[sc].granted.transactions = 1
        /\ hist.single[sc].consumed.transactions = 1
        /\ hist.single[sc].consumed.bytes < hist.single[sc].granted.bytes
        /\ use_authorization(Storage, OriginOf(sc), HashOf(sc), 1).result = "NotAuthorized"

\* C3: a scope's unused extent is at most the sum of the extents of the scope's
\* authorizations that have not expired, in transactions and in bytes, also
\* after authorizations of the scope expired unused, partly used or used up.
C3_UnusedWithinUnexpired ==
    \A sc \in DOMAIN AuthorizationUsageByScope :
        LET unused == AuthorizationUsageByScope[sc].unused
            unexpired == Outstanding(AuthorizationsByExpiry, sc)
        IN /\ unused.transactions <= unexpired.transactions
           /\ unused.bytes <= unexpired.bytes

\* a partly used authorization has expired and the scope holds another one
C3_Witness ==
    /\ phase = "open"
    /\ "some" \in hist.expired
    /\ \E sc \in DOMAIN AuthorizationUsageByScope :
          /\ AuthorizationUsageByScope[sc].unused.transactions > 0
          /\ Outstanding(AuthorizationsByExpiry, sc).transactions > 0

\* what a store, a renew or a check_proof of the inputs returns in the current state
StoreOutcome(i) == store(Storage, i[1], i[2], i[3])
RenewOutcome(i) == renew(Storage, i[1], i[2], i[3], i[4])
ProofOutcome(i) == check_proof(Storage, i[1], i[2], block_number, parent_hash)
\* the ledger and the accumulator are as they were
SameUsageAndAccumulator(post) ==
    post.usage = AuthorizationUsageByScope /\ post.bt = BlockTransactions

GrantOutcome(i) == authorize_account(Storage, i[1], i[2], i[3], i[4], block_number)
PreimageGrantOutcome(i) == authorize_preimage(Storage, i[1], i[2], i[3], block_number)
ExpiryOverflows == block_number + AuthorizationPeriod > BlockNumberMax
ExpiryListFull ==
    /\ ~ExpiryOverflows
    /\ Len(get_or(AuthorizationsByExpiry, block_number + AuthorizationPeriod, <<>>))
           >= MaxBlockAuthorizationExpiries
RejectedGrant(r) ==
    /\ ExpiryOverflows => r.result = "ArithmeticError"
    /\ ExpiryListFull => r.result = "TooManyAuthorizations"
    /\ r.result \in {"ArithmeticError", "TooManyAuthorizations"} =>
           with_storage_layer(Storage, r) = Storage

ProofRequired ==
    /\ block_number > StoragePeriod
    /\ get_or(ChunkCount, block_number - StoragePeriod, 0) # 0

\* C6: a block can be finalized exactly when a check_proof succeeded in it or no
\* proof is required for it, so a finalized block whose target block holds chunks
\* had its proof checked, and a block that panicked had not.
C6_FinalizeNeedsProof ==
    /\ phase = "open" =>
          ((on_finalize(Storage, block_number).result = "Ok")
              <=> (hist.proofs > 0 \/ ~ProofRequired))
    /\ (phase = "idle" /\ ProofRequired) => hist.proofs > 0
    /\ phase = "panicked" => (hist.proofs = 0 /\ ProofRequired)

\* a block whose target holds chunks was finalized after its proof was checked
C6_Witness == phase = "idle" /\ ProofRequired /\ hist.proofs > 0

\* C7: at most one check_proof succeeds in a block; after it every check_proof of
\* the block fails, with DoubleCheck when it comes from the none origin, and
\* changes nothing; a check_proof that fails does not set the flag.
C7_OneProofPerBlock ==
    /\ hist.proofs <= 1
    /\ (phase = "open" /\ hist.proofs > 0) =>
          \A i \in IndexInputs.proof :
              /\ ProofOutcome(i).result = (IF i[1] = RawNone THEN "DoubleCheck" ELSE "BadOrigin")
              /\ with_storage_layer(Storage, ProofOutcome(i)) = Storage
    /\ (phase = "open" /\ hist.proofs = 0) => ~ProofChecked

\* in one block a check_proof failed with InvalidProof, a later one succeeded and
\* one after that failed with DoubleCheck
C7_Witness ==
    /\ phase = "open"
    /\ hist.proofs = 1
    /\ {"InvalidProof", "DoubleCheck"} \subseteq hist.rejected

\* C8: in a block that has no block to prove, or whose target block holds no
\* chunks, check_proof fails with UnexpectedProof, the flag stays false and the
\* block finalizes without a proof.
C8_UnexpectedProof ==
    (phase = "open" /\ ~ProofRequired) =>
        /\ ~ProofChecked
        /\ hist.proofs = 0
        /\ \A i \in IndexInputs.proof :
              i[1] = RawNone =>
                  /\ ProofOutcome(i).result = "UnexpectedProof"
                  /\ with_storage_layer(Storage, ProofOutcome(i)) = Storage
        /\ on_finalize(Storage, block_number).result = "Ok"

\* a block after the storage period, whose target block is empty, was finalized
\* after a check_proof of it failed with UnexpectedProof
C8_Witness ==
    /\ phase = "idle"
    /\ block_number > StoragePeriod
    /\ ~ProofRequired
    /\ hist.rejected = {"UnexpectedProof"}
    /\ hist.proofs = 0

\* block_chunks of every entry is the sum of the chunks of the entries up to it,
\* and the sequence of block_chunks does not decrease
Cumulative(infos) ==
    \A j \in 1..Len(infos) :
        /\ infos[j].block_chunks = SumChunks(infos, j)
        /\ j > 1 => infos[j - 1].block_chunks <= infos[j].block_chunks

\* C9: in the accumulator and in every committed list, block_chunks is the running
\* sum of num_chunks(size) and does not decrease; the last block_chunks of a
\* committed list is the chunk count stored for the block.
C9_CumulativeChunks ==
    /\ Cumulative(BlockTransactions)
    /\ \A b \in CommittedBlocks :
          /\ Cumulative(Transactions[b])
          /\ last_block_chunks(Transactions[b]) = get_or(ChunkCount, b, 0)

\* a committed list and the accumulator both hold two items, of different sizes
C9_Witness ==
    /\ Len(BlockTransactions) >= 2
    /\ BlockTransactions[1].size # BlockTransactions[2].size
    /\ \E b \in CommittedBlocks :
          Len(Transactions[b]) >= 2 /\ Transactions[b][1].size # Transactions[b][2].size

\* C10: on_finalize leaves the accumulator empty; it stores the accumulator, in
\* order, as the index of the block, with the block's chunk count, exactly when
\* the accumulator was not empty, and writes neither for an empty block.
C10_FinalizeCommits ==
    [][(phase = "open" /\ phase' = "idle") =>
          /\ BlockTransactions' = <<>>
          /\ IF BlockTransactions # <<>>
             THEN /\ Transactions' = insert(Transactions, block_number, BlockTransactions)
                  /\ ChunkCount' = insert(ChunkCount, block_number,
                                          Last(BlockTransactions).block_chunks)
             ELSE /\ Transactions' = Transactions
                  /\ ChunkCount' = ChunkCount
                  /\ ~contains_key(Transactions, block_number)
                  /\ ~contains_key(ChunkCount, block_number)]_vars

\* a block with two items has been finalized
C10_Witness ==
    /\ phase = "idle"
    /\ contains_key(Transactions, block_number)
    /\ Len(Transactions[block_number]) >= 2
    /\ BlockTransactions = <<>>

\* the blocks that may hold an index: the storage period before the current block,
\* and the current block once it is finalized
RetainedWindow ==
    IF phase = "open" THEN (block_number - StoragePeriod)..(block_number - 1)
    ELSE (block_number - StoragePeriod)..block_number

RetainedBlocks == (DOMAIN Transactions) \cup (DOMAIN ChunkCount)

\* C11: the index and the chunk count committed for block b stay as committed
\* through block b + StoragePeriod and are removed by on_initialize of block
\* b + StoragePeriod + 1; after on_initialize(n) only the blocks of
\* [n - StoragePeriod, n - 1] hold an entry, and never more than StoragePeriod + 1
\* blocks are retained.
C11_Retention ==
    /\ [](/\ RetainedBlocks \subseteq RetainedWindow
          /\ Cardinality(RetainedBlocks) <= StoragePeriod + 1)
    /\ [][\A b \in DOMAIN Transactions :
             IF b + StoragePeriod >= block_number'
             THEN /\ contains_key(Transactions', b) /\ Transactions'[b] = Transactions[b]
                  /\ contains_key(ChunkCount', b) /\ ChunkCount'[b] = ChunkCount[b]
             ELSE /\ b + StoragePeriod + 1 = block_number'
                  /\ ~contains_key(Transactions', b)
                  /\ ~contains_key(ChunkCount', b)]_vars

\* a block started by removing the index of the block that left the storage
\* period, and the block whose proof is due still has its index
C11_Witness ==
    /\ phase = "open"
    /\ hist.pruned
    /\ ~contains_key(Transactions, block_number - StoragePeriod - 1)
    /\ contains_key(Transactions, block_number - StoragePeriod)
    /\ contains_key(ChunkCount, block_number - StoragePeriod)

\* the callers of the dispatchables
Origins == {Signed(Alice), RawNone, Root}

\* block holds a committed index with an entry at position index
RecordFound(block, index) ==
    contains_key(Transactions, block) /\ index < Len(Transactions[block])

\* a successful renew of the record info by origin: one transaction and the size of
\* the record are taken from the caller's scope, and the entry appended has the
\* root, the hash and the size of the record and the running total of this block
RenewedAs(r, origin, info) ==
    LET sc == unwrap(scope_of(origin, info.content_hash))
        before == get_or(AuthorizationUsageByScope, sc, DefaultUsage)
        after == get_or(r.s.usage, sc, DefaultUsage)
    IN /\ after.unused = AuthorizationExtent(before.unused.transactions - 1,
                                             before.unused.bytes - info.size)
       /\ after.used = AuthorizationExtent(before.used.transactions + 1,
                                           before.used.bytes + info.size)
       /\ r.s.bt = Append(BlockTransactions,
                          TransactionInfo(info.chunk_root, info.content_hash, info.size,
                              last_block_chunks(BlockTransactions) + num_chunks(info.size)))

\* C12: renew(block, index) succeeds only when block has a committed index with
\* an entry at index; for the block being built, a pruned block or a position out
\* of range it fails with RenewedNotFound and changes nothing; a successful renew
\* takes one transaction and the size of the record from the caller's scope and
\* appends an entry with the record's chunk_root, content_hash and size and with
\* block_chunks computed for the current block.
C12_Renew ==
    phase = "open" =>
        \A origin \in Origins, block \in 0..BlockNumberMax, index \in 0..MaxBlockTransactions :
            LET r == renew(Storage, origin, block, index, Some(0)) IN
            /\ (block >= block_number \/ block + StoragePeriod < block_number)
                   => ~RecordFound(block, index)
            /\ ~RecordFound(block, index) =>
                   /\ r.result = "RenewedNotFound"
                   /\ with_storage_layer(Storage, r) = Storage
            /\ r.result = "Ok" =>
                   /\ RecordFound(block, index)
                   /\ RenewedAs(r, origin, Transactions[block][index + 1])

\* the second record of the previous block, of two chunks, was renewed as the
\* first entry of the current block
C12_Witness ==
    /\ phase = "open"
    /\ hist.renewed
    /\ Len(BlockTransactions) = 1
    /\ RecordFound(PrevBlock, 1)
    /\ Transactions[PrevBlock][1].size # Transactions[PrevBlock][2].size
    /\ BlockTransactions[1].chunk_root = Transactions[PrevBlock][2].chunk_root
    /\ BlockTransactions[1].block_chunks < Transactions[PrevBlock][2].block_chunks

\* the accumulator holds MaxBlockTransactions entries
AccumulatorFull == Len(BlockTransactions) = MaxBlockTransactions
\* the storage with an empty accumulator
EmptyAccumulator == [Storage EXCEPT !.bt = <<>>]

\* a call that returned r: it fails when the accumulator is full, with
\* TooManyTransactions when it would have succeeded had the accumulator had room
\* (rIfRoom); when it succeeds it appends one entry, the index it reports is the
\* number of entries the accumulator held, and on_finalize commits the entry at
\* that position of the index of the block
AppendsAtIndex(r, rIfRoom) ==
    /\ AccumulatorFull =>
           /\ r.result # "Ok"
           /\ rIfRoom.result = "Ok" => r.result = "TooManyTransactions"
    /\ r.result = "Ok" =>
           /\ r.index = Len(BlockTransactions)
           /\ Len(r.s.bt) = r.index + 1
           /\ SubSeq(r.s.bt, 1, r.index) = BlockTransactions
           /\ LET f == on_finalize(r.s, block_number)
              IN f.result = "Ok" =>
                     /\ contains_key(f.s.txs, block_number)
                     /\ f.s.txs[block_number][r.index + 1] = Last(r.s.bt)

\* C13: the accumulator never holds more than MaxBlockTransactions entries; a
\* store or a renew made when it holds that many fails, with TooManyTransactions
\* when nothing else is wrong with the call; a store or renew that succeeds
\* reports the number of entries appended before it in the block, which is the
\* position of its entry in the index committed for the block.
C13_CapacityAndIndex ==
    /\ Len(BlockTransactions) <= MaxBlockTransactions
    /\ \A b \in CommittedBlocks : Len(Transactions[b]) <= MaxBlockTransactions
    /\ phase = "open" =>
          /\ \A i \in IndexInputs.store :
                AppendsAtIndex(StoreOutcome(i), store(EmptyAccumulator, i[1], i[2], i[3]))
          /\ \A i \in IndexInputs.renew :
                AppendsAtIndex(RenewOutcome(i),
                               renew(EmptyAccumulator, i[1], i[2], i[3], i[4]))

\* the accumulator was filled, by a renew among others, and a renew that is
\* authorized is rejected with TooManyTransactions
C13_Witness ==
    /\ phase = "open"
    /\ AccumulatorFull
    /\ hist.renewed
    /\ \E i \in IndexInputs.renew : RenewOutcome(i).result = "TooManyTransactions"

\* the scope a store or renew of data with this hash by this caller is to debit
ScopeDebited(origin, hash) ==
    IF origin[1] = "Signed" THEN Account(origin[2]) ELSE Preimage(hash)

\* a store or renew by origin of data with this hash returned r: a caller that is
\* neither an account nor anonymous is rejected with nothing changed; a call that
\* succeeds changes the usage record of the scope to debit and of no other scope
DebitsOnly(r, origin, hash) ==
    /\ origin[1] \notin {"Signed", "None"} =>
           /\ r.result # "Ok"
           /\ with_storage_layer(Storage, r) = Storage
    /\ r.result = "Ok" =>
           LET sc == ScopeDebited(origin, hash) IN
           /\ remove(r.s.usage, sc) = remove(AuthorizationUsageByScope, sc)
           /\ contains_key(AuthorizationUsageByScope, sc)
           /\ r.s.usage[sc].unused.transactions =
                  AuthorizationUsageByScope[sc].unused.transactions - 1

\* C14: a store or renew by account A debits the usage record of Account(A) only,
\* an anonymous one debits the record of Preimage(content hash) only, and any
\* other caller is rejected with no change; no consume changes the usage of
\* another scope, so a signed store of pre-authorized data leaves the preimage
\* authorization as it was and an anonymous store spends no account's authorization.
C14_ScopeDebited ==
    phase = "open" =>
        /\ \A origin \in Origins, n \in 1..MaxTransactionSize :
              DebitsOnly(store(Storage, origin, Blob(n), Some(0)), origin,
                         blake2_256(Blob(n)))
        /\ \A origin \in Origins, block \in 0..BlockNumberMax,
                  index \in 0..MaxBlockTransactions :
              LET r == renew(Storage, origin, block, index, Some(0))
              IN r.result = "Ok" \/ origin = Root =>
                     DebitsOnly(r, origin,
                                IF RecordFound(block, index)
                                THEN Transactions[block][index + 1].content_hash
                                ELSE blake2_256(Blob(1)))

\* before any authorization expired, the one entry of the accumulator is a store
\* of the data whose hash is pre-authorized, the account paid for it and the
\* preimage authorization is unused
C14_Witness ==
    /\ phase = "open"
    /\ block_number <= AuthorizationPeriod
    /\ ~hist.renewed
    /\ Len(BlockTransactions) = 1
    /\ BlockTransactions[1].content_hash = blake2_256(Blob(1))
    /\ contains_key(AuthorizationUsageByScope, Preimage(blake2_256(Blob(1))))
    /\ AuthorizationUsageByScope[Preimage(blake2_256(Blob(1)))].used.transactions = 0
    /\ contains_key(AuthorizationUsageByScope, Account(Alice))
    /\ AuthorizationUsageByScope[Account(Alice)].used.transactions >= 1

\* authorize_preimage(hash, bytes) returned r: when it succeeds the scope
\* Preimage(hash) has one more unused transaction and bytes more unused bytes, and
\* a grant of {1, bytes} is appended to the list of the expiry block
PreimageGranted(r, hash, bytes) ==
    r.result = "Ok" =>
        LET sc == Preimage(hash)
            before == get_or(AuthorizationUsageByScope, sc, DefaultUsage)
            expiry == block_number + AuthorizationPeriod
        IN /\ r.s.usage[sc].unused =
                  AuthorizationExtent(before.unused.transactions + 1,
                                      before.unused.bytes + bytes)
           /\ r.s.usage[sc].used = before.used
           /\ r.s.expiry[expiry] =
                  Append(get_or(AuthorizationsByExpiry, expiry, <<>>),
                         [scope |-> sc, extent |-> AuthorizationExtent(1, bytes)])

\* C15: a successful authorize_preimage(hash, bytes) credits Preimage(hash) with
\* 1 transaction and bytes bytes and records a grant {1, bytes} under the expiry
\* block; while that grant is the scope's only one the data can be stored
\* anonymously once, and a second anonymous store fails with NotAuthorized.
C15_PreimageOneShot ==
    /\ phase = "open" =>
          \A i \in LedgerInputs.preimage :
              PreimageGranted(PreimageGrantOutcome(i), i[2], i[3])
    /\ \A sc \in DOMAIN hist.single :
          sc[1] = "Preimage" =>
              /\ hist.single[sc].granted.transactions = 1
              /\ hist.single[sc].consumed.transactions <= 1
              /\ AuthorizationUsageByScope[sc].unused.transactions
                     = 1 - hist.single[sc].consumed.transactions
              /\ hist.single[sc].consumed.transactions = 1 =>
                     store(Storage, RawNone, sc[2], Some(0)).result = "NotAuthorized"

\* data pre-authorized by a single grant of two bytes was stored anonymously once,
\* the grant has a byte left and another anonymous store is not authorized
C15_Witness ==
    /\ phase = "open"
    /\ \E sc \in DOMAIN hist.single :
          /\ sc = Preimage(blake2_256(Blob(1)))
          /\ hist.single[sc].granted = AuthorizationExtent(1, 2)
          /\ hist.single[sc].consumed = AuthorizationExtent(1, 1)
          /\ AuthorizationUsageByScope[sc].unused.bytes = 1
          /\ store(Storage, RawNone, Blob(1), Some(0)).result = "NotAuthorized"

\* a grant to scope sc of extent (t, b) that returned r was accepted and is
\* recorded under a block after the expiry block of the current block
ExtendedGrant(r, sc, t, b) ==
    /\ r.result = "Ok"
    /\ \E e \in DOMAIN r.s.expiry :
          /\ e > block_number + AuthorizationPeriod
          /\ \E j \in 1..Len(r.s.expiry[e]) :
                r.s.expiry[e][j] = [scope |-> sc, extent |-> AuthorizationExtent(t, b)]

\* C16: no expiry block has more than MaxBlockAuthorizationExpiries
\* authorizations recorded, and the limit is kept by extending: a grant made when
\* the list of block current + AuthorizationPeriod is full is accepted and
\* recorded under a later block.
C16_FullListExtends ==
    /\ \A e \in DOMAIN AuthorizationsByExpiry :
          Len(AuthorizationsByExpiry[e]) <= MaxBlockAuthorizationExpiries
    /\ (phase = "open" /\ ExpiryListFull) =>
          /\ \A i \in LedgerInputs.account :
                ExtendedGrant(GrantOutcome(i), Account(i[2]), i[3], i[4])
          /\ \A i \in LedgerInputs.preimage :
                ExtendedGrant(PreimageGrantOutcome(i), Preimage(i[2]), 1, i[3])

\* the scopes a store or renew of the inputs can debit
StorerScopes ==
    {Account(Alice)} \cup {Preimage(blake2_256(Blob(n))) : n \in 1..MaxTransactionSize}

\* the unused-extent query of a scope
UnusedExtent(sc) ==
    IF sc[1] = "Account" THEN unused_account_authorization_extent(Storage, sc[2])
    ELSE unused_preimage_authorization_extent(Storage, sc[2])

\* every store and every renew of a found record that debits scope sc is not authorized
NothingAuthorized(sc) ==
    /\ \A n \in 1..MaxTransactionSize :
          ScopeDebited(OriginOf(sc), blake2_256(Blob(n))) = sc =>
              store(Storage, OriginOf(sc), Blob(n), Some(0)).result = "NotAuthorized"
    /\ \A block \in 0..BlockNumberMax, index \in 0..MaxBlockTransactions :
          (/\ RecordFound(block, index)
           /\ ScopeDebited(OriginOf(sc), Transactions[block][index + 1].content_hash) = sc)
              => renew(Storage, OriginOf(sc), block, index, Some(0)).result = "NotAuthorized"

\* C17: a usage record that is all-zero after an authorization expired is deleted,
\* so no stored record is all-zero, and a scope none of whose authorizations is
\* still recorded has no usage record, an unused extent of {0, 0} and every store
\* and renew by it fails with NotAuthorized.
C17_ExpiredScopeHasNoRecord ==
    \A sc \in StorerScopes :
        /\ contains_key(AuthorizationUsageByScope, sc) =>
               AuthorizationUsageByScope[sc] # DefaultUsage
        /\ Outstanding(AuthorizationsByExpiry, sc) = AuthorizationExtent(0, 0) =>
               /\ ~contains_key(AuthorizationUsageByScope, sc)
               /\ UnusedExtent(sc) = AuthorizationExtent(0, 0)
               /\ phase = "open" => NothingAuthorized(sc)

\* an authorization that had been used expired at the start of the block, no
\* authorization and no usage record is left, and the account cannot store
C17_Witness ==
    /\ phase = "open"
    /\ hist.expired \cap {"some", "all"} # {}
    /\ AuthorizationsByExpiry = EmptyMap
    /\ AuthorizationUsageByScope = EmptyMap
    /\ store(Storage, Signed(Alice), Blob(1), Some(0)).result = "NotAuthorized"

\* used + unused of a scope, and the scopes that hold or held an authorization
UsageTotal(sc) ==
    LET usage == get_or(AuthorizationUsageByScope, sc, DefaultUsage)
    IN AuthorizationExtent(usage.used.transactions + usage.unused.transactions,
                           usage.used.bytes + usage.unused.bytes)

\* C18: for every scope, used + unused is at most the sum of the extents of the
\* scope's authorizations recorded in the expiry lists, in transactions and in
\* bytes, and equals it unless a saturating addition clipped a credit of the scope.
C18_UsageWithinRecorded ==
    \A sc \in StorerScopes \cup DOMAIN AuthorizationUsageByScope :
        LET total == UsageTotal(sc)
            recorded == Outstanding(AuthorizationsByExpiry, sc)
        IN /\ total.transactions <= recorded.transactions
           /\ total.bytes <= recorded.bytes
           /\ sc \notin hist.clipped => total = recorded

\* a partly used authorization expired, another one of the scope is recorded, part
\* of it is used and part unused, and no credit was clipped
C18_Witness ==
    /\ phase = "open"
    /\ "some" \in hist.expired
    /\ hist.clipped = {}
    /\ \E sc \in DOMAIN AuthorizationUsageByScope :
          /\ AuthorizationUsageByScope[sc].used.transactions > 0
          /\ AuthorizationUsageByScope[sc].unused.bytes > 0
          /\ UsageTotal(sc) = Outstanding(AuthorizationsByExpiry, sc)

\* C19: for every committed list and every chunk index k below the block's chunk
\* count, the in-item index that check_proof hands to the proof verifier as the
\* key, k - (info.block_chunks - num_chunks(info.size)) of the item info it
\* selected, is a chunk position of that item: it is below num_chunks(info.size).
C19_ChunkIndexInItem ==
    \A b \in CommittedBlocks :
        \A k \in 0..(get_or(ChunkCount, b, 0) - 1) :
            LET sel == select_chunk(Transactions[b], k)
            IN /\ is_some(sel)
               /\ unwrap(sel).chunk_index < num_chunks(unwrap(sel).info.size)

\* the block whose proof is due in the current block
TargetBlock == saturating_sub(block_number, StoragePeriod)

\* C20: a block has a non-zero stored chunk count exactly when it has a stored,
\* non-empty transaction list; so check_proof never fails with MissingStateData,
\* whatever the proof and the parent hash: when the target's chunk count is not
\* zero the list exists and the position searched for is inside it.
C20_MapsAgree ==
    /\ \A b \in 0..BlockNumberMax :
          (get_or(ChunkCount, b, 0) # 0)
              <=> (contains_key(Transactions, b) /\ Transactions[b] # <<>>)
    /\ phase = "open" =>
          /\ \A i \in IndexInputs.proof, parent \in 0..U32Max :
                check_proof(Storage, i[1], i[2], block_number, parent).result
                    # "MissingStateData"
          /\ \A k \in 0..(get_or(ChunkCount, TargetBlock, 0) - 1) :
                is_some(select_chunk(Transactions[TargetBlock], k))

\* the block to prove holds an item of two chunks and one of one chunk, the parent
\* hash selected the second chunk and its proof was accepted
C20_Witness ==
    /\ phase = "open"
    /\ ProofRequired
    /\ hist.proofs = 1
    /\ parent_hash = 1
    /\ Len(Transactions[TargetBlock]) = 2
    /\ ChunkCount[TargetBlock] = 3
    /\ Transactions[TargetBlock][1].block_chunks = 2

\* C21: the proof-checked flag is false at the start of every block: on_finalize
\* clears it whether or not a proof was required, so the flag is true only inside
\* a block in which a check_proof succeeded, and a proof checked in one block does
\* not serve the next; when the flag is true the block to prove is not block 0 and
\* has a non-zero stored chunk count.
C21_FlagPerBlock ==
    /\ phase # "open" => ~ProofChecked
    /\ ProofChecked =>
          /\ hist.proofs = 1
          /\ TargetBlock # 0
          /\ get_or(ChunkCount, TargetBlock, 0) # 0
    /\ phase = "open" =>
          LET f == on_finalize(Storage, block_number)
          IN /\ f.result = "Ok" => ~f.s.pc
             /\ (hist.proofs = 0 /\ ProofRequired) => f.result = "Panic"

\* the previous block needed a proof (the block it proved has just been pruned) and
\* was finalized; the current block needs one too, starts with the flag false and
\* cannot be finalized as it is
C21_Witness ==
    /\ phase = "open"
    /\ hist.pruned
    /\ hist.proofs = 0
    /\ hist.rejected = {}
    /\ ProofRequired
    /\ ~ProofChecked
    /\ on_finalize(Storage, block_number).result = "Panic"

\* every list recorded in expiryMap is in later, with the same authorizations first
ListsKept(expiryMap, later) ==
    \A e \in DOMAIN expiryMap :
        /\ contains_key(later, e)
        /\ Len(later[e]) >= Len(expiryMap[e])
        /\ SubSeq(later[e], 1, Len(expiryMap[e])) = expiryMap[e]

\* a grant that returned r is recorded last in the list of a block after the
\* current one, the block AuthorizationPeriod later
RecordedLater(r, sc, t, b) ==
    r.result = "Ok" =>
        LET e == block_number + AuthorizationPeriod
        IN /\ e > block_number
           /\ contains_key(r.s.expiry, e)
           /\ Last(r.s.expiry[e]) = [scope |-> sc, extent |-> AuthorizationExtent(t, b)]
           /\ Len(r.s.expiry[e]) = Len(get_or(AuthorizationsByExpiry, e, <<>>)) + 1
           /\ remove(r.s.expiry, e) = remove(AuthorizationsByExpiry, e)

\* C22: every grant is recorded under a block after the one in which it is made,
\* so no list is recorded for a block up to the current one; a step inside a block
\* removes and changes no recorded grant, and adds at most one, to the list of the
\* block AuthorizationPeriod later; the step that starts block n expires the
\* authorizations of the list of block n, each once, removes the whole list and
\* leaves the other lists as they are: every recorded grant is met once, by the
\* on_initialize of its expiry block.
C22_ExpiryProcessedOnce ==
    /\ [](/\ integrity_test
          /\ \A e \in DOMAIN AuthorizationsByExpiry : e > block_number
          /\ phase = "open" =>
                /\ \A i \in LedgerInputs.account :
                      RecordedLater(GrantOutcome(i), Account(i[2]), i[3], i[4])
                /\ \A i \in LedgerInputs.preimage :
                      RecordedLater(PreimageGrantOutcome(i), Preimage(i[2]), 1, i[3]))
    /\ [][IF block_number' # block_number
          THEN /\ AuthorizationsByExpiry' = remove(AuthorizationsByExpiry, block_number')
               /\ AuthorizationUsageByScope' =
                      expire_all(AuthorizationUsageByScope,
                                 get_or(AuthorizationsByExpiry, block_number', <<>>))
          ELSE /\ ListsKept(AuthorizationsByExpiry, AuthorizationsByExpiry')
               /\ \A e \in DOMAIN AuthorizationsByExpiry' :
                      AuthorizationsByExpiry'[e] # get_or(AuthorizationsByExpiry, e, <<>>) =>
                          /\ e = block_number + AuthorizationPeriod
                          /\ Len(AuthorizationsByExpiry'[e]) =
                                 Len(get_or(AuthorizationsByExpiry, e, <<>>)) + 1]_vars

\* the block started by expiring the list recorded for it, and a grant made in a
\* later block is still recorded for the next block
C22_Witness ==
    /\ phase = "open"
    /\ hist.expired # {}
    /\ ~contains_key(AuthorizationsByExpiry, block_number)
    /\ contains_key(AuthorizationsByExpiry, block_number + 1)
    /\ Len(AuthorizationsByExpiry[block_number + 1]) = MaxBlockAuthorizationExpiries

====
